---------------------------- MODULE Spec2Model ----------------------------
(***************************************************************************)
(* A model of the Content Planner client: the route table (Router), the    *)
(* dashboard component ContentPlannerApp with its React state, the shared  *)
(* '/api/content' query cache and the sign-out call.                       *)
(*                                                                         *)
(* Values are kept as the running program keeps them: a content item is a  *)
(* record, a path is a sequence of characters, a Date is the count of whole *)
(* hours since 1970-01-01T00:00Z, read in the browser's time zone, and a   *)
(* date received over the wire is its ISO (UTC) form.                      *)
(***************************************************************************)
EXTENDS Integers, Sequences, FiniteSets, TLC

VARIABLES
    timeZone,        \* the browser's time zone, fixed for a session
    location,        \* the browser path the Router matches
    loading, user,   \* useAuth(): auth still resolving, the signed-in user
    tree,            \* the mounted component: hook list of its last render
    isModalOpen, isAuthModalOpen, editingItem,
    currentDate, view, filters,
    cache,           \* the query cache entry keyed '/api/content'
    server,          \* the list the data API holds
    signingOut,      \* the signOut() calls in flight
    toasts           \* sonner toasts on screen, oldest first

vars == <<timeZone, location, loading, user, tree, isModalOpen, isAuthModalOpen,
          editingItem, currentDate, view, filters, cache, server,
                   signingOut, toasts>>

componentState == <<isModalOpen, isAuthModalOpen, editingItem, currentDate,
                    view, filters>>

---------------------------------------------------------------------------
(* Bounds of the model *)

\* longest fetched list drawn as an input
MaxItems == 2
\* toasts on screen at once
MaxToasts == 1
\* signOut() calls in flight at once
MaxSignOuts == 2
\* years before and after the clock's years the header may be moved to
MaxYearSpan == 1

---------------------------------------------------------------------------
(* Content items *)

Platforms == {"social", "email", "blog"}
Statuses == {"draft", "scheduled", "posted"}
Views == {"month", "week", "day"}

\* Property names every object literal inherits from Object.prototype: a
\* lookup obj[name] with one of these finds the inherited member.
ObjectPrototypeKeys ==
    {"constructor", "toString", "toLocaleString", "valueOf", "hasOwnProperty",
     "isPrototypeOf", "propertyIsEnumerable", "__proto__",
     "__defineGetter__", "__defineSetter__", "__lookupGetter__",
     "__lookupSetter__"}

\* editingItem of useState<ContentItem | null>(null)
Null == [null |-> TRUE]

IsLeap(y) == (y % 4 = 0 /\ y % 100 # 0) \/ y % 400 = 0

DaysInMonth(y, m) ==
    IF m = 2 THEN (IF IsLeap(y) THEN 29 ELSE 28)
    ELSE IF m \in {4, 6, 9, 11} THEN 30 ELSE 31

\* the days from 1970-01-01 to the civil date, by 400-year eras that begin
\* on 1 March: y is the year such a March year began in, mp its month
DaysOfEra(era, yoe, mp, d) ==
    era * 146097 + yoe * 365 + yoe \div 4 - yoe \div 100
        + (153 * mp + 2) \div 5 + d - 1 - 719468

DaysOfMarchYear(y, mp, d) == DaysOfEra(y \div 400, y % 400, mp, d)

DaysFromCivil(y, m, d) ==
    DaysOfMarchYear(IF m <= 2 THEN y - 1 ELSE y,
                    IF m > 2 THEN m - 3 ELSE m + 9, d)

\* the civil date of a count of days, step by step: the day of the era, the
\* year of the era, the day of the March year, its month
CivilRecord(y, m, d) ==
    [y |-> y + (IF m <= 2 THEN 1 ELSE 0), m |-> m, d |-> d]

CivilOfMonth(y, doy, mp) ==
    CivilRecord(y, IF mp < 10 THEN mp + 3 ELSE mp - 9,
                doy - (153 * mp + 2) \div 5 + 1)

CivilOfDayOfYear(y, doy) == CivilOfMonth(y, doy, (5 * doy + 2) \div 153)

CivilOfYearOfEra(era, doe, yoe) ==
    CivilOfDayOfYear(yoe + era * 400,
                     doe - (365 * yoe + yoe \div 4 - yoe \div 100))

CivilOfDayOfEra(era, doe) ==
    CivilOfYearOfEra(era, doe,
        (doe - doe \div 1460 + doe \div 36524 - doe \div 146096) \div 365)

CivilOfShifted(z) == CivilOfDayOfEra(z \div 146097, z % 146097)

CivilFromDays(z0) == CivilOfShifted(z0 + 719468)

\* Date.UTC(y, m-1, d, h) in hours
HoursFromCivil(y, m, d, h) == DaysFromCivil(y, m, d) * 24 + h

WithHour(c, h) == [y |-> c.y, m |-> c.m, d |-> c.d, h |-> h]

\* getUTCFullYear, getUTCMonth + 1, getUTCDate, getUTCHours of a Date
UTCFields(t) == WithHour(CivilFromDays(t \div 24), t % 24)

\* the zones the browser may run in
TimeZones == {"UTC", "America/Los_Angeles", "Asia/Tokyo"}

\* 0 is Sunday; 1970-01-01 was a Thursday
Weekday(days) == (days + 4) % 7

\* the day of month of the n-th Sunday of a month
NthSunday(y, m, n) ==
    1 + ((7 - Weekday(DaysFromCivil(y, m, 1))) % 7) + 7 * (n - 1)

\* United States rule: daylight time from the second Sunday of March,
\* 02:00 standard time, to the first Sunday of November, 02:00 daylight time
DSTInYear(y, t) ==
    /\ t >= HoursFromCivil(y, 3, NthSunday(y, 3, 2), 10)
    /\ t < HoursFromCivil(y, 11, NthSunday(y, 11, 1), 9)

IsDST(tz, t) ==
    tz = "America/Los_Angeles" /\ DSTInYear(CivilFromDays(t \div 24).y, t)

\* hours the zone's clock is ahead of UTC at the instant t
Offset(tz, t) ==
    IF tz = "Asia/Tokyo" THEN 9
    ELSE IF tz = "America/Los_Angeles" THEN (IF IsDST(tz, t) THEN -7 ELSE -8)
    ELSE 0

\* getFullYear, getMonth + 1, getDate, getHours of a Date
LocalFields(tz, t) == UTCFields(t + Offset(tz, t))

\* the instant of the local time w, a the zone's offset before and b after
\* any change of the clocks near it: a time the clocks skip or show twice
\* is read with the offset in force before the change
PickInstant(tz, w, a, b) ==
    IF Offset(tz, w - a) # a /\ Offset(tz, w - b) = b THEN w - b ELSE w - a

InstantOfLocal(tz, w) ==
    PickInstant(tz, w, Offset(tz, w - 24), Offset(tz, w + 24))

\* new Date(y, m-1, d, h) and Date.prototype.setMonth
FromLocal(tz, y, m, d, h) == InstantOfLocal(tz, HoursFromCivil(y, m, d, h))

\* A scheduledDate as the client holds it: the ISO string of a fetched item
\* (JSON carries no Date), or a Date object made by the client.
IsoDate(y, m, d, h) == [kind |-> "iso", y |-> y, m |-> m, d |-> d, h |-> h]
DateObject(t) == [kind |-> "date", t |-> t]

\* new Date(v): parses an ISO string, copies a Date
NewDate(v) ==
    IF v.kind = "iso" THEN HoursFromCivil(v.y, v.m, v.d, v.h) ELSE v.t

\* Date.prototype.toISOString, to the hour
ToISO(t) == LET c == UTCFields(t) IN IsoDate(c.y, c.m, c.d, c.h)

Item(id, title, platform, status, date) ==
    [id |-> id, title |-> title, platform |-> platform, status |-> status,
     scheduledDate |-> date]

---------------------------------------------------------------------------
(* The route table: Router() renders a wouter <Switch> of <Route>s *)

\* A path is the sequence of its characters.
PathRoot == <<"/">>
PathApp == <<"/", "a", "p", "p">>
PathAnalytics == <<"/", "a", "n", "a", "l", "y", "t", "i", "c", "s">>
PathBulkScheduling == <<"/", "b", "u", "l", "k", "-", "s", "c", "h", "e", "d", "u", "l", "i", "n", "g">>
PathSubscription == <<"/", "s", "u", "b", "s", "c", "r", "i", "p", "t", "i", "o", "n">>
PathSettings == <<"/", "s", "e", "t", "t", "i", "n", "g", "s">>

\* The routes in the order Switch holds them; the last has no path.
Routes ==
    << [path |-> PathRoot, component |-> "Landing"],
       [path |-> PathApp, component |-> "ContentPlanner"],
       [path |-> PathAnalytics, component |-> "Analytics"],
       [path |-> PathBulkScheduling, component |-> "BulkScheduling"],
       [path |-> PathSubscription, component |-> "Subscription"],
       [path |-> PathSettings, component |-> "Settings"],
       [path |-> <<>>, component |-> "NotFound"] >>

\* Paths the browser is sent to in the model: the six of the table, and
\* others that differ from them by a trailing slash, by letter case, by a
\* further segment or altogether.
PathAppSlash == <<"/", "a", "p", "p", "/">>
PathSettingsUpper == <<"/", "S", "e", "t", "t", "i", "n", "g", "s">>
PathAppNew == <<"/", "a", "p", "p", "/", "n", "e", "w">>
PathNope == <<"/", "n", "o", "p", "e">>
PathApps == <<"/", "a", "p", "p", "s">>
OtherPaths == {PathAppSlash, PathSettingsUpper, PathAppNew, PathNope, PathApps}
TablePaths == {PathRoot, PathApp, PathAnalytics, PathBulkScheduling, PathSubscription, PathSettings}
Paths == TablePaths \cup OtherPaths

UpperCase == <<"A", "B", "C", "D", "E", "F", "G", "H", "I", "J", "K", "L", "M", "N", "O", "P", "Q", "R", "S", "T", "U", "V", "W", "X", "Y", "Z">>
LowerCase == <<"a", "b", "c", "d", "e", "f", "g", "h", "i", "j", "k", "l", "m", "n", "o", "p", "q", "r", "s", "t", "u", "v", "w", "x", "y", "z">>

\* the 'i' flag of the route's regular expression
LowerChar(c) ==
    IF \E i \in 1..26 : UpperCase[i] = c
    THEN LowerCase[CHOOSE i \in 1..26 : UpperCase[i] = c]
    ELSE c

ToLower(p) == [i \in 1..Len(p) |-> LowerChar(p[i])]

\* the optional trailing slash of the route's regular expression
StripSlash(p) ==
    IF Len(p) > 1 /\ p[Len(p)] = "/" THEN SubSeq(p, 1, Len(p) - 1) ELSE p

\* <Route path=...> matches: wouter turns the pattern into the regular
\* expression ^pattern/?$ with the i flag; a Route without a path matches
\* every location.
Matches(pattern, path) ==
    \/ pattern = <<>>
    \/ ToLower(StripSlash(path)) = ToLower(pattern)

\* variant: the Route without a path is tried first
SwitchRoute_Last(path) ==
    LET hits == {i \in 1..Len(Routes) : Matches(Routes[i].path, path)}
    IN IF hits = {} THEN 0 ELSE CHOOSE i \in hits : \A j \in hits : i >= j

\* <Switch>: the first child Route that matches is the one rendered
SwitchRoute(path) ==
    LET hits == {i \in 1..Len(Routes) : Matches(Routes[i].path, path)}
    IN IF hits = {} THEN 0 ELSE CHOOSE i \in hits : \A j \in hits : i <= j

\* the pages on screen at a location
Router(path) ==
    IF SwitchRoute(path) = 0 THEN {} ELSE {Routes[SwitchRoute(path)].component}

\* the page each modelled path renders
PageTable ==
    [p \in Paths |->
        IF SwitchRoute(p) = 0 THEN "none" ELSE Routes[SwitchRoute(p)].component]

PageAt(path) == PageTable[path]

OnAppPage(path) == PageAt(path) = "ContentPlanner"


---------------------------------------------------------------------------
(* Inputs: what the data API, the AI assistant and the clock may supply *)

Item1 == Item("1", "Launch", "social", "draft", IsoDate(2024, 1, 31, 12))
Item2 == Item("2", "Newsletter", "email", "scheduled", IsoDate(2024, 2, 29, 0))
Item3 == Item("3", "Recap", "blog", "posted", IsoDate(2025, 3, 1, 0))
Item4 == Item("4", "Thread", "twitter", "draft", IsoDate(2024, 12, 31, 23))
Item5 == Item("5", "Launch", "constructor", "toString", IsoDate(2025, 2, 28, 18))
Item6 == Item("6", "Teaser", "social", "archived", IsoDate(2024, 3, 15, 9))

\* The client receives items as JSON and never validates them: platform and
\* status are strings.
ItemPool == {Item1, Item2, Item3, Item4, Item5, Item6}

Ids(list) == {list[i].id : i \in 1..Len(list)}

RECURSIVE ListsOver(_, _)
\* the lists of at most n items of pool, no id twice
ListsOver(pool, n) ==
    IF n = 0 THEN {<<>>}
    ELSE LET shorter == ListsOver(pool, n - 1)
         IN shorter \cup
            {Append(l, x) : l \in {k \in shorter : Len(k) = n - 1},
                            x \in pool}

Distinct(list) == Cardinality(Ids(list)) = Len(list)

FetchedLists == {l \in ListsOver(ItemPool, MaxItems) : Distinct(l)}

\* the data API's list when a session starts
ServerInit == <<Item1, Item2, Item3>>

\* handleSuggestionUse(suggestion: any)
Suggestions ==
    {[title |-> "Idea", platform |-> "social"],
     [title |-> "Idea", platform |-> "linkedin"]}

\* new Date(): the days on which the model's clock may stand
NowDates == {HoursFromCivil(2024, 1, 31, 12), HoursFromCivil(2025, 3, 1, 0)}

\* the years the header may be moved through
FirstYear ==
    UTCFields(CHOOSE t \in NowDates : \A u \in NowDates : t <= u).y
        - MaxYearSpan
LastYear ==
    UTCFields(CHOOSE t \in NowDates : \A u \in NowDates : t >= u).y
        + MaxYearSpan

\* names react-big-calendar may pass to onView
CalendarViews == {"month", "week", "work_week", "day", "agenda"}

---------------------------------------------------------------------------
(* ContentPlannerApp: what one render returns *)

\* lines 72, 93: the two early returns, then the dashboard
RenderBranch(l, u) ==
    IF ~l /\ u = "none" THEN "signin"
    ELSE IF l THEN "loading"
    ELSE "dashboard"

\* The hooks one render calls. Every render calls useToast, useAuth,
\* useQueryClient and six useState; only a render that reaches the dashboard
\* goes on to useQuery, useMutation and three useCallback.
HooksOf(branch) == IF branch = "dashboard" THEN "full" ELSE "early"

\* A re-render of a mounted component must call the hooks its last render
\* called; React throws otherwise ("Rendered more hooks than during the
\* previous render", "Rendered fewer hooks than expected"), and with no
\* error boundary the tree is unmounted.
Rerender(t, l, u) ==
    IF t \in {"unmounted", "crashed"} THEN t
    ELSE IF HooksOf(RenderBranch(l, u)) = t THEN t
    ELSE "crashed"

\* what the component shows
ScreenOf(t, l, u) ==
    IF t = "unmounted" THEN "none"
    ELSE IF t = "crashed" THEN "error"
    ELSE RenderBranch(l, u)

Screen == ScreenOf(tree, loading, user)

\* useState initial values, lines 38-46
InitialFilters ==
    [platforms |-> [k \in Platforms |-> TRUE],
     statuses |-> [k \in Statuses |-> TRUE]]

\* line 105: data: contentItems = []
contentItems == cache.data

\* line 105: isLoading
isLoading == cache.status = "pending"

\* obj[key] as a condition: an own property gives its value, an inherited
\* one a function or object (truthy), any other name undefined (falsy)
Lookup(obj, key) ==
    IF key \in DOMAIN obj THEN obj[key] ELSE key \in ObjectPrototypeKeys

\* lines 122-125: the predicate of contentItems.filter
PassesFilter(f, item) ==
    Lookup(f.platforms, item.platform) /\ Lookup(f.statuses, item.status)

\* Array.prototype.filter
RECURSIVE Filter(_, _)
Filter(list, f) ==
    IF list = <<>> THEN <<>>
    ELSE IF PassesFilter(f, Head(list))
         THEN <<Head(list)>> \o Filter(Tail(list), f)
         ELSE Filter(Tail(list), f)

filteredItems == Filter(contentItems, filters)

\* variant: the event is given a duration of a day
ToEvent_OneDayLong(item) ==
    [id |-> item.id, title |-> item.title,
     start |-> NewDate(item.scheduledDate),
     end |-> NewDate(item.scheduledDate) + 24,
     resource |-> item]

\* lines 128-134: one CalendarEvent of an item
ToEvent(item) ==
    [id |-> item.id, title |-> item.title,
     start |-> NewDate(item.scheduledDate),
     end |-> NewDate(item.scheduledDate),
     resource |-> item]

\* lines 128-134: filteredItems.map
EventsOf(list) == [i \in 1..Len(list) |-> ToEvent(list[i])]

events == EventsOf(filteredItems)

\* variant: the counts are taken from the filtered list
platformCounts_Filtered ==
    [k \in Platforms |->
        Cardinality({i \in 1..Len(filteredItems) : filteredItems[i].platform = k})]

\* lines 182-186
platformCounts ==
    [k \in Platforms |->
        Cardinality({i \in 1..Len(contentItems) : contentItems[i].platform = k})]

\* what is on screen of the dashboard's parts
CalendarShown == Screen = "dashboard" /\ ~isLoading
ModalShown == Screen = "dashboard" /\ isModalOpen


---------------------------------------------------------------------------
(* The query cache entry '/api/content' and the toasts *)

EmptyCache ==
    [status |-> "pending", data |-> <<>>, invalidated |-> FALSE,
     fetching |-> FALSE]

FreshCache(list) ==
    [status |-> "success", data |-> list, invalidated |-> FALSE,
     fetching |-> FALSE]

\* useQuery, lines 105-107, on the render that mounts the dashboard: the
\* list is requested unless the cache holds a valid one
ObserverMount(c) ==
    IF c.status # "success" \/ c.invalidated
    THEN [c EXCEPT !.fetching = TRUE]
    ELSE c

\* line 113: queryClient.invalidateQueries({ queryKey: ['/api/content'] });
\* an entry a mounted useQuery observes is requested again at once
InvalidateQueries(c, active) ==
    [c EXCEPT !.invalidated = TRUE,
              !.fetching = IF active THEN TRUE ELSE @]

Toast(kind, message) == [kind |-> kind, message |-> message]

SignedOutToast == Toast("success", "Signed out successfully")
SignOutFailedToast == Toast("error", "Failed to sign out")
DeletedToast == Toast("success", "Content item deleted successfully")
DeleteFailedToast == Toast("error", "Failed to delete content item")
\* line 246: the message ends with a space and U+2728, written here as its
\* JSON escape
ReadyToast == Toast("success", "Ready to create amazing content! \\u2728")

CanToast == Len(toasts) < MaxToasts

ErrorToasts(ts) == Cardinality({i \in 1..Len(ts) : ts[i].kind = "error"})

\* moment's setMonth: the day of month is clamped to the month's length
ClampedDay(y, m, d) == IF d <= DaysInMonth(y, m) THEN d ELSE DaysInMonth(y, m)

\* variant: the day of month is carried over as it is, and a day past the
\* end of the month reached runs on into the next month
SetMonth_NoClamp(tz, c, total) ==
    FromLocal(tz, total \div 12, (total % 12) + 1, c.d, c.h)

\* moment's setMonth on the local fields c, total counting months from year 0
SetMonth(tz, c, total) ==
    FromLocal(tz, total \div 12, (total % 12) + 1,
              ClampedDay(total \div 12, (total % 12) + 1, c.d), c.h)

AddToFields(tz, c, n) == SetMonth(tz, c, c.y * 12 + (c.m - 1) + n)

\* moment(date).add(n, 'month').toDate(): in local time the month moves by
\* n, the day of month is clamped to the length of the month reached and
\* the time of day is kept
AddMonths(tz, t, n) == AddToFields(tz, LocalFields(tz, t), n)

InYears(t) == UTCFields(t).y \in FirstYear..LastYear

\* dates react-big-calendar may pass to onNavigate: the clock's, the items',
\* and two from which a month's move meets a change of the clocks
NavigateDates ==
    NowDates
    \cup {NewDate(ServerInit[i].scheduledDate) : i \in 1..Len(ServerInit)}
    \cup {HoursFromCivil(2025, 2, 9, 10), HoursFromCivil(2025, 10, 2, 8)}

---------------------------------------------------------------------------
(* Initial states *)

\* lines 38-46: the useState initial values; new Date() is one of dates
InitialState(dates) ==
    /\ isModalOpen = FALSE
    /\ isAuthModalOpen = FALSE
    /\ editingItem = Null
    /\ currentDate \in dates
    /\ view = "month"
    /\ filters = InitialFilters

\* the same values given to a component that mounts
MountState(dates) ==
    /\ isModalOpen' = FALSE
    /\ isAuthModalOpen' = FALSE
    /\ editingItem' = Null
    /\ currentDate' \in dates
    /\ view' = "month"
    /\ filters' = InitialFilters

\* an unmounted component holds no state: the model keeps one fixed value
NoDates == {CHOOSE t \in NowDates : \A u \in NowDates : t <= u}

\* The page is loaded at any path; auth is still resolving.
Init ==
    /\ timeZone \in TimeZones
    /\ location \in Paths
    /\ loading = TRUE
    /\ user = "none"
    /\ IF OnAppPage(location)
       THEN tree = "early" /\ InitialState(NowDates)
       ELSE tree = "unmounted" /\ InitialState(NoDates)
    /\ cache = EmptyCache
    /\ server = ServerInit
    /\ signingOut = 0
    /\ toasts = <<>>

\* The dashboard of a signed-in user as it mounts: its first render has
\* asked for the list, which the data API holds as list.
DashboardWith(list) ==
    /\ timeZone \in TimeZones
    /\ location = PathApp
    /\ loading = FALSE
    /\ user = "u1"
    /\ tree = "full"
    /\ InitialState(NowDates)
    /\ cache = ObserverMount(EmptyCache)
    /\ server = list
    /\ signingOut = 0
    /\ toasts = <<>>

InitDashboard == DashboardWith(ServerInit)

InitFetched == \E list \in FetchedLists : DashboardWith(list)

---------------------------------------------------------------------------
(* Navigation and authentication *)

Alive == tree # "crashed"

\* A <Link> or the address bar changes the path; the Switch renders the
\* page of the path, mounting ContentPlannerApp on the ContentPlanner page
\* and unmounting it on any other.
Navigate(p) ==
    /\ Alive
    /\ p # location
    /\ location' = p
    /\ IF OnAppPage(p) /\ ~OnAppPage(location)
       THEN /\ tree' = HooksOf(RenderBranch(loading, user))
            /\ MountState(NowDates)
            /\ cache' = IF tree' = "full" THEN ObserverMount(cache) ELSE cache
       ELSE IF ~OnAppPage(p) /\ OnAppPage(location)
       THEN /\ tree' = "unmounted"
            /\ MountState(NoDates)
            /\ cache' = cache
       ELSE UNCHANGED <<tree, componentState, cache>>
    /\ UNCHANGED <<timeZone, loading, user, server, signingOut,
                   toasts>>

\* useAuth(): the provider learns the session's user
AuthResolved(u) ==
    /\ Alive
    /\ loading
    /\ loading' = FALSE
    /\ user' = u
    /\ tree' = Rerender(tree, FALSE, u)
    /\ UNCHANGED <<timeZone, location, componentState, cache, server,
                   signingOut, toasts>>

\* a sign-in completes
SignIn ==
    /\ Alive
    /\ ~loading
    /\ user = "none"
    /\ user' = "u1"
    /\ tree' = Rerender(tree, loading, "u1")
    /\ UNCHANGED <<timeZone, location, loading, componentState, cache, server,
                   signingOut, toasts>>

\* line 81: the sign-in prompt's button
OpenAuthModal ==
    /\ Screen = "signin"
    /\ isAuthModalOpen' = TRUE
    /\ UNCHANGED <<timeZone, location, loading, user, tree, isModalOpen, editingItem,
                   currentDate, view, filters, cache, server,
                   signingOut, toasts>>

\* line 88: AuthModal onOpenChange
AuthModalOpenChange(open) ==
    /\ Screen = "signin"
    /\ isAuthModalOpen
    /\ isAuthModalOpen' = open
    /\ UNCHANGED <<timeZone, location, loading, user, tree, isModalOpen, editingItem,
                   currentDate, view, filters, cache, server,
                   signingOut, toasts>>

\* lines 48-50: handleSignOut up to its await; a click while an earlier
\* call is pending calls signOut() again
HandleSignOut ==
    /\ Screen = "dashboard"
    /\ signingOut < MaxSignOuts
    /\ signingOut' = signingOut + 1
    /\ UNCHANGED <<timeZone, location, loading, user, tree, componentState, cache,
                   server, toasts>>

\* lines 50-51: signOut() resolved, the user is gone
SignOutResolved ==
    /\ signingOut > 0
    /\ CanToast
    /\ signingOut' = signingOut - 1
    /\ user' = "none"
    /\ tree' = Rerender(tree, loading, "none")
    /\ toasts' = Append(toasts, SignedOutToast)
    /\ UNCHANGED <<timeZone, location, loading, componentState, cache, server>>

\* lines 52-54: signOut() rejected
SignOutRejected ==
    /\ signingOut > 0
    /\ CanToast
    /\ signingOut' = signingOut - 1
    /\ toasts' = Append(toasts, SignOutFailedToast)
    /\ UNCHANGED <<timeZone, location, loading, user, tree, componentState, cache,
                   server>>

\* a toast leaves the screen
DismissToast ==
    /\ toasts # <<>>
    /\ toasts' = Tail(toasts)
    /\ UNCHANGED <<timeZone, location, loading, user, tree, componentState, cache,
                   server, signingOut>>

---------------------------------------------------------------------------
(* The list query and the delete mutation *)

\* the response of GET /api/content
FetchSucceeds ==
    /\ cache.fetching
    /\ cache' = FreshCache(server)
    /\ UNCHANGED <<timeZone, location, loading, user, tree, componentState, server,
                   signingOut, toasts>>

\* GET /api/content fails: lines 105-107 read neither error nor isError
FetchFails ==
    /\ cache.fetching
    /\ cache' = [cache EXCEPT !.status = "error", !.fetching = FALSE]
    /\ UNCHANGED <<timeZone, location, loading, user, tree, componentState, server,
                   signingOut, toasts>>

\* deleteMutation (lines 110-119) is declared and named nowhere else: no
\* handler calls its mutate, so the client has no delete step. Its two
\* callbacks, as functions of what they act on, the cache entry c and the
\* toasts ts on screen; active says whether a mounted useQuery observes c.
\* lines 112-115: onSuccess invalidates the entry, then shows its toast
DeleteOnSuccess(c, ts, active) ==
    [cache |-> InvalidateQueries(c, active),
     toasts |-> Append(ts, DeletedToast)]

\* lines 116-118: onError shows its toast and leaves the entry alone
DeleteOnError(c, ts, active) ==
    [cache |-> c, toasts |-> Append(ts, DeleteFailedToast)]

---------------------------------------------------------------------------
(* The dashboard's handlers *)

\* variant: the new platforms object is built without ...prev.platforms
TogglePlatform_DropsOthers(key, checked) ==
    /\ Screen = "dashboard"
    /\ filters' = [filters EXCEPT
                      !.platforms = [k \in Platforms |-> k = key /\ checked]]
    /\ UNCHANGED <<timeZone, location, loading, user, tree, isModalOpen,
                   isAuthModalOpen, editingItem, currentDate, view, cache,
                   server, signingOut, toasts>>

\* lines 302-307: a platform checkbox's onCheckedChange
TogglePlatform(key, checked) ==
    /\ Screen = "dashboard"
    /\ filters' = [filters EXCEPT !.platforms = [@ EXCEPT ![key] = checked]]
    /\ UNCHANGED <<timeZone, location, loading, user, tree, isModalOpen,
                   isAuthModalOpen, editingItem, currentDate, view, cache,
                   server, signingOut, toasts>>

\* lines 336-341: a status checkbox's onCheckedChange
ToggleStatus(key, checked) ==
    /\ Screen = "dashboard"
    /\ filters' = [filters EXCEPT !.statuses = [@ EXCEPT ![key] = checked]]
    /\ UNCHANGED <<timeZone, location, loading, user, tree, isModalOpen,
                   isAuthModalOpen, editingItem, currentDate, view, cache,
                   server, signingOut, toasts>>

\* line 429: a view button's onClick
SetView(viewOption) ==
    /\ Screen = "dashboard"
    /\ view' = viewOption
    /\ UNCHANGED <<timeZone, location, loading, user, tree, isModalOpen,
                   isAuthModalOpen, editingItem, currentDate, filters, cache,
                   server, signingOut, toasts>>

\* variant: onView={setView}
OnView_Unguarded(v) ==
    /\ CalendarShown
    /\ view' = v
    /\ UNCHANGED <<timeZone, location, loading, user, tree, isModalOpen,
                   isAuthModalOpen, editingItem, currentDate, filters, cache,
                   server, signingOut, toasts>>

\* lines 464-468: the Calendar's onView
OnView(v) ==
    /\ CalendarShown
    /\ view' = IF v = "month" \/ v = "week" \/ v = "day" THEN v ELSE view
    /\ UNCHANGED <<timeZone, location, loading, user, tree, isModalOpen,
                   isAuthModalOpen, editingItem, currentDate, filters, cache,
                   server, signingOut, toasts>>

\* line 396: the previous button
PrevMonth ==
    /\ Screen = "dashboard"
    /\ InYears(AddMonths(timeZone, currentDate, -1))
    /\ currentDate' = AddMonths(timeZone, currentDate, -1)
    /\ UNCHANGED <<timeZone, location, loading, user, tree, isModalOpen,
                   isAuthModalOpen, editingItem, view, filters, cache,
                   server, signingOut, toasts>>

\* line 405: the next button
NextMonth ==
    /\ Screen = "dashboard"
    /\ InYears(AddMonths(timeZone, currentDate, 1))
    /\ currentDate' = AddMonths(timeZone, currentDate, 1)
    /\ UNCHANGED <<timeZone, location, loading, user, tree, isModalOpen,
                   isAuthModalOpen, editingItem, view, filters, cache,
                   server, signingOut, toasts>>

\* line 417: the Today button
Today(now) ==
    /\ Screen = "dashboard"
    /\ currentDate' = now
    /\ UNCHANGED <<timeZone, location, loading, user, tree, isModalOpen,
                   isAuthModalOpen, editingItem, view, filters, cache,
                   server, signingOut, toasts>>

\* line 470: onNavigate={setCurrentDate}
OnNavigate(date) ==
    /\ CalendarShown
    /\ currentDate' = date
    /\ UNCHANGED <<timeZone, location, loading, user, tree, isModalOpen,
                   isAuthModalOpen, editingItem, view, filters, cache,
                   server, signingOut, toasts>>

\* lines 172-175
handleSelectEvent(event) ==
    /\ CalendarShown
    /\ editingItem' = event.resource
    /\ isModalOpen' = TRUE
    /\ UNCHANGED <<timeZone, location, loading, user, tree, isAuthModalOpen,
                   currentDate, view, filters, cache, server,
                   signingOut, toasts>>

\* lines 177-180
handleSelectSlot ==
    /\ CalendarShown
    /\ editingItem' = Null
    /\ isModalOpen' = TRUE
    /\ UNCHANGED <<timeZone, location, loading, user, tree, isAuthModalOpen,
                   currentDate, view, filters, cache, server,
                   signingOut, toasts>>

\* lines 243-247: the Add New Content button
AddNewContent ==
    /\ Screen = "dashboard"
    /\ CanToast
    /\ editingItem' = Null
    /\ isModalOpen' = TRUE
    /\ toasts' = Append(toasts, ReadyToast)
    /\ UNCHANGED <<timeZone, location, loading, user, tree, isAuthModalOpen,
                   currentDate, view, filters, cache, server,
                   signingOut>>

\* lines 58-67: the item handleSuggestionUse builds
SuggestedItem(suggestion, now) ==
    Item("", suggestion.title, suggestion.platform, "draft", DateObject(now))

\* variant: the suggestion becomes the item to edit, the modal is not opened
handleSuggestionUse_NoOpen(suggestion, now) ==
    /\ Screen = "dashboard"
    /\ editingItem' = SuggestedItem(suggestion, now)
    /\ UNCHANGED <<timeZone, location, loading, user, tree, isModalOpen,
                   isAuthModalOpen, currentDate, view, filters, cache,
                   server, signingOut, toasts>>

\* lines 57-69
handleSuggestionUse(suggestion, now) ==
    /\ Screen = "dashboard"
    /\ editingItem' = SuggestedItem(suggestion, now)
    /\ isModalOpen' = TRUE
    /\ UNCHANGED <<timeZone, location, loading, user, tree, isAuthModalOpen,
                   currentDate, view, filters, cache, server,
                   signingOut, toasts>>

\* variant: onClose only closes the modal
CloseModal_KeepsItem ==
    /\ Screen = "dashboard"
    /\ isModalOpen' = FALSE
    /\ UNCHANGED <<timeZone, location, loading, user, tree, isAuthModalOpen,
                   editingItem, currentDate, view, filters, cache, server,
                   signingOut, toasts>>

\* lines 500-503: ContentModal's onClose
CloseModal ==
    /\ Screen = "dashboard"
    /\ isModalOpen' = FALSE
    /\ editingItem' = Null
    /\ UNCHANGED <<timeZone, location, loading, user, tree, isAuthModalOpen,
                   currentDate, view, filters, cache, server,
                   signingOut, toasts>>

---------------------------------------------------------------------------
(* Specifications *)

ModalStep ==
    \/ \E i \in 1..Len(events) : handleSelectEvent(events[i])
    \/ handleSelectSlot
    \/ AddNewContent
    \/ \E s \in Suggestions, now \in NowDates : handleSuggestionUse(s, now)
    \/ CloseModal

FilterStep ==
    \/ \E k \in Platforms, checked \in BOOLEAN : TogglePlatform(k, checked)
    \/ \E k \in Statuses, checked \in BOOLEAN : ToggleStatus(k, checked)

ViewStep ==
    \/ \E v \in Views : SetView(v)
    \/ \E v \in CalendarViews : OnView(v)

DateStep ==
    \/ \E now \in NowDates : Today(now)
    \/ \E d \in NavigateDates : OnNavigate(d)

MonthStep == PrevMonth \/ NextMonth

CalendarStep == ViewStep \/ DateStep \/ MonthStep

AuthStep ==
    \/ \E u \in {"none", "u1"} : AuthResolved(u)
    \/ SignIn
    \/ OpenAuthModal
    \/ \E open \in BOOLEAN : AuthModalOpenChange(open)
    \/ HandleSignOut
    \/ SignOutResolved
    \/ SignOutRejected

NetworkStep ==
    \/ FetchSucceeds
    \/ FetchFails

\* the whole client
Next ==
    \/ \E p \in Paths : Navigate(p)
    \/ AuthStep
    \/ NetworkStep
    \/ ModalStep
    \/ FilterStep
    \/ CalendarStep
    \/ DismissToast

Spec == Init /\ [][Next]_vars

\* a session: routes, authentication, the list query, the modal
NextSession ==
    \/ \E p \in Paths : Navigate(p)
    \/ AuthStep
    \/ NetworkStep
    \/ AddNewContent
    \/ CloseModal
    \/ DismissToast

SpecSession == Init /\ [][NextSession]_vars

\* the dashboard of a signed-in user over the list the session starts with
NextUI ==
    \/ FetchSucceeds
    \/ ModalStep
    \/ FilterStep
    \/ ViewStep
    \/ DateStep
    \/ DismissToast

SpecUI == InitDashboard /\ [][NextUI]_vars

\* the calendar header and widget of that dashboard
NextCalendar == FetchSucceeds \/ CalendarStep

SpecCalendar == InitDashboard /\ [][NextCalendar]_vars

\* the dashboard over every fetched list
NextFetched ==
    \/ FetchSucceeds
    \/ FilterStep
    \/ \E i \in 1..Len(events) : handleSelectEvent(events[i])
    \/ CloseModal

SpecFetched == InitFetched /\ [][NextFetched]_vars


---------------------------------------------------------------------------
(* Claims *)

\* the flag of a key: true only for one of the map's own keys set to true
FlagTrue(map, key) == key \in DOMAIN map /\ map[key]

Flagged(item) ==
    FlagTrue(filters.platforms, item.platform)
    /\ FlagTrue(filters.statuses, item.status)

\* C1: the items rendered on the calendar are exactly the fetched items whose
\* platform flag is true and whose status flag is true, in list order; an
\* item whose platform or status is none of the six keys is never rendered.
C1_RenderedAreFlagged ==
    /\ filteredItems = SelectSeq(contentItems, Flagged)
    /\ \A i \in 1..Len(events) :
          /\ events[i].resource.platform \in Platforms
          /\ events[i].resource.status \in Statuses

\* C2: a mounted ContentPlannerApp shows the sign-in prompt, and no part of
\* the dashboard, whenever loading is false and there is no user, and only
\* the loading screen while loading is true.
C2_SignInPromptWhenSignedOut ==
    OnAppPage(location) =>
       /\ (~loading /\ user = "none") =>
             (Screen = "signin" /\ ~CalendarShown /\ ~ModalShown)
       /\ loading => Screen = "loading"

Failure == SignOutRejected \/ FetchFails

\* C4: every failure of a data-API or auth call is surfaced as exactly one
\* error toast; a failed sign-out shows 'Failed to sign out' alone and
\* leaves auth and UI state unchanged. (The failed delete the claim also
\* speaks of is no step of the client: deleteMutation is never invoked.)
C4_FailureToasted ==
    [][/\ Failure =>
             /\ ErrorToasts(toasts') = ErrorToasts(toasts) + 1
             /\ Len(toasts') = Len(toasts) + 1
       /\ SignOutRejected =>
             /\ toasts' = Append(toasts, SignOutFailedToast)
             /\ UNCHANGED <<loading, user, tree, componentState>>
      ]_vars

WellFormed(item) == item.platform \in Platforms /\ item.status \in Statuses

\* C5: every content item the dashboard holds, and the one it hands to the
\* modal, has a platform and a status of the enumerated sets.
C5_EnumeratedMembers ==
    /\ \A i \in 1..Len(contentItems) : WellFormed(contentItems[i])
    /\ editingItem # Null => WellFormed(editingItem)

\* the page the table names for a path taken literally
ExactPage(path) ==
    IF \E i \in 1..Len(Routes) - 1 : Routes[i].path = path
    THEN Routes[CHOOSE i \in 1..Len(Routes) - 1 : Routes[i].path = path].component
    ELSE "NotFound"

\* C6 as stated: the six paths render their pages and every other path the
\* not-found page.
C6_ExactRouteTable == Router(location) = {ExactPage(location)}

\* C6, amended: each path renders exactly one page; the six paths of the
\* table render theirs, also when written in another letter case or with
\* one trailing slash, and every other path renders the not-found page.
C6_RouteTable ==
    Router(location) =
       { CASE location = PathRoot -> "Landing"
           [] location \in {PathApp, PathAppSlash} -> "ContentPlanner"
           [] location = PathAnalytics -> "Analytics"
           [] location = PathBulkScheduling -> "BulkScheduling"
           [] location = PathSubscription -> "Subscription"
           [] location \in {PathSettings, PathSettingsUpper} -> "Settings"
           [] OTHER -> "NotFound" }

C6_Witness == location = PathAppSlash /\ Screen = "dashboard"

\* C7: selecting an event opens the modal on that event's item; selecting a
\* slot or pressing Add New Content opens it on null; using a suggestion
\* opens it on a new draft with an empty id; closing sets isModalOpen false
\* and editingItem null; none of these changes filters, view or date.
C7_ModalTransitions ==
    [][/\ \A i \in 1..Len(events) :
             handleSelectEvent(events[i]) =>
                (isModalOpen' /\ editingItem' = filteredItems[i])
       /\ (handleSelectSlot \/ AddNewContent) =>
             (isModalOpen' /\ editingItem' = Null)
       /\ \A s \in Suggestions, now \in NowDates :
             handleSuggestionUse(s, now) =>
                /\ isModalOpen'
                /\ editingItem' # Null
                /\ editingItem'.id = ""
                /\ editingItem'.status = "draft"
                /\ editingItem'.title = s.title
                /\ editingItem' \notin {contentItems[i] : i \in 1..Len(contentItems)}
       /\ CloseModal => (~isModalOpen' /\ editingItem' = Null)
       /\ ModalStep => UNCHANGED <<filters, view, currentDate>>
      ]_vars

C7_Witness ==
    /\ isModalOpen
    /\ editingItem = Null
    /\ filters # InitialFilters
    /\ view = "week"
    /\ currentDate \notin NowDates
    /\ toasts = <<>>

\* C8: the view is always one of month, week, day, and month at first; a
\* view button sets it to its option; onView with any other name leaves it.
C8_ViewIsOneOfThree ==
    /\ view = "month"
    /\ [](view \in Views)
    /\ [][/\ \A v \in Views : SetView(v) => view' = v
          /\ \A v \in CalendarViews :
                OnView(v) => view' = (IF v \in Views THEN v ELSE view)
         ]_vars

C8_Witness == view = "day" /\ CalendarShown

\* C9: the events are the filtered items one to one and in order: as many,
\* the i-th with the i-th item's id and title and the item as resource, and
\* start and end both the day of the item's scheduledDate.
C9_EventsMirrorFiltered ==
    /\ Len(events) = Len(filteredItems)
    /\ \A i \in 1..Len(filteredItems) :
          /\ events[i].id = filteredItems[i].id
          /\ events[i].title = filteredItems[i].title
          /\ events[i].resource = filteredItems[i]
          /\ events[i].start = events[i].end
          /\ ToISO(events[i].start) = filteredItems[i].scheduledDate

C9_Witness ==
    /\ Len(events) = 1
    /\ Len(contentItems) = 2
    /\ events[1].resource = contentItems[2]

OneFlagSet(old, new, key, checked) ==
    /\ new[key] = checked
    /\ \A k \in DOMAIN old \ {key} : new[k] = old[k]
    /\ DOMAIN new = DOMAIN old

\* C10: all six flags are true at first; setting one platform (status) flag
\* changes that flag alone, and no toggle changes the fetched list, the
\* modal state, the view or the current date.
C10_ToggleChangesOneFlag ==
    /\ filters = InitialFilters
    /\ [][/\ \A k \in Platforms, c \in BOOLEAN :
                TogglePlatform(k, c) =>
                   /\ OneFlagSet(filters.platforms, filters'.platforms, k, c)
                   /\ filters'.statuses = filters.statuses
          /\ \A k \in Statuses, c \in BOOLEAN :
                ToggleStatus(k, c) =>
                   /\ OneFlagSet(filters.statuses, filters'.statuses, k, c)
                   /\ filters'.platforms = filters.platforms
          /\ FilterStep =>
                UNCHANGED <<cache, isModalOpen, editingItem, view, currentDate>>
         ]_vars

C10_Witness ==
    /\ filters.platforms = [social |-> TRUE, email |-> FALSE, blog |-> TRUE]
    /\ filters.statuses = [draft |-> TRUE, scheduled |-> TRUE, posted |-> FALSE]
    /\ isModalOpen
    /\ view = "week"


RECURSIVE CountPlatform(_, _)
CountPlatform(list, p) ==
    IF list = <<>> THEN 0
    ELSE (IF Head(list).platform = p THEN 1 ELSE 0)
         + CountPlatform(Tail(list), p)

\* C11: each sidebar count is the number of fetched items of that platform,
\* whatever the filters are; the three counts sum to at most the number of
\* fetched items; no toggle of a platform or status filter changes a count.
C11_CountsFromFetchedList ==
    /\ [](/\ \A p \in Platforms :
                platformCounts[p] = CountPlatform(contentItems, p)
          /\ platformCounts.social + platformCounts.email
                + platformCounts.blog <= Len(contentItems))
    /\ [][FilterStep => platformCounts' = platformCounts]_vars

\* social is unchecked and still counted; the other fetched item is of no
\* counted platform
C11_Witness ==
    /\ Screen = "dashboard"
    /\ Len(contentItems) = 2
    /\ ~filters.platforms.social
    /\ platformCounts = [social |-> 1, email |-> 0, blog |-> 0]
    /\ Len(filteredItems) < Len(contentItems)


\* lines 389-391: the month and year the header shows, as a count of months
MonthIndex(tz, t) == LocalFields(tz, t).y * 12 + (LocalFields(tz, t).m - 1)

\* t is moved by n months: the month reached, the day kept or clamped
MovedByMonths(tz, t, u, n) ==
    LET c == LocalFields(tz, t)
        r == LocalFields(tz, u)
    IN /\ MonthIndex(tz, u) = MonthIndex(tz, t) + n
       /\ r.d = IF c.d <= DaysInMonth(r.y, r.m) THEN c.d
                ELSE DaysInMonth(r.y, r.m)

\* C12: in every view the previous (next) button moves currentDate back
\* (forward) by one calendar month, the day of month clamped to the length
\* of the month reached, and changes nothing else; next then previous, and
\* previous then next, end in the month and year they started from.
C12_MonthButtons ==
    /\ [](/\ MonthIndex(timeZone,
                AddMonths(timeZone, AddMonths(timeZone, currentDate, 1), -1))
                = MonthIndex(timeZone, currentDate)
          /\ MonthIndex(timeZone,
                AddMonths(timeZone, AddMonths(timeZone, currentDate, -1), 1))
                = MonthIndex(timeZone, currentDate))
    /\ [][/\ PrevMonth =>
                /\ MovedByMonths(timeZone, currentDate, currentDate', -1)
                /\ view' = view
          /\ NextMonth =>
                /\ MovedByMonths(timeZone, currentDate, currentDate', 1)
                /\ view' = view
         ]_vars

\* the week view stands on 29 March 2024, 04:00 in Los Angeles: from the
\* clock's 31 January the next button came to 29 February, clamped, and
\* then across the change to daylight time
C12_Witness ==
    /\ Screen = "dashboard"
    /\ view = "week"
    /\ timeZone = "America/Los_Angeles"
    /\ currentDate = HoursFromCivil(2024, 3, 29, 11)
    /\ LocalFields(timeZone, currentDate) =
          [y |-> 2024, m |-> 3, d |-> 29, h |-> 4]

\* C13: on the dashboard, whenever the content modal is closed editingItem
\* is null, after any sequence of event selection, slot selection, Add New
\* Content, suggestion use and modal close.
C13_ClosedModalHasNoItem ==
    (Screen = "dashboard" /\ ~isModalOpen) => editingItem = Null

\* the modal was opened by Add New Content, whose toast is still shown, and
\* has been closed again
C13_Witness ==
    /\ Screen = "dashboard"
    /\ ~isModalOpen
    /\ editingItem = Null
    /\ toasts = <<ReadyToast>>
    /\ contentItems = ServerInit

===========================================================================
